---- MODULE Spec2Model ----
(***************************************************************************)
(* warehousebot-rl: the routing and motion-planning engine of the          *)
(* warehouse picking simulation (route planner, static A*, pedestrian      *)
(* model, wait/replan controller and the tick-driven episode scheduler).   *)
(* Cells are pairs <<r, c>>; item labels A, B, ... are the numbers 1, 2,   *)
(* ... (their sorted order is the numeric order).                          *)
(***************************************************************************)
EXTENDS Integers, Sequences, FiniteSets, TLC

\* ===================== Config =====================
\* WAIT_MAX is 40 in the source (a tunable patience threshold); it is scaled
\* down here so that the patience cap is reached within MaxTime ticks.
WAIT_MAX == 3
\* Caps on state.time and peopleTick (both grow without bound in the code) and
\* on the number of button clicks (Submit, Start, Reset) in a behaviour: for
\* the deployments with pedestrians, and for those without (Quiet).
MaxTime == 7
MaxClicks == 3
MaxTimeQuiet == 9
MaxClicksQuiet == 4
\* Pass cap of twoOptImprove.
TwoOptGuard == 40

null == <<>>

Abs(x) == IF x < 0 THEN -x ELSE x

\* ===================== Collision / Geometry =====================
Dirs == << <<1, 0>>, <<-1, 0>>, <<0, 1>>, <<0, -1>> >>

Manhattan(a, b) == Abs(a[1] - b[1]) + Abs(a[2] - b[2])

Chebyshev(a, b) ==
  IF Abs(a[1] - b[1]) > Abs(a[2] - b[2]) THEN Abs(a[1] - b[1]) ELSE Abs(a[2] - b[2])

sameCell(a, b) == a[1] = b[1] /\ a[2] = b[2]

inBounds(lay, r, c) == r >= 0 /\ r < lay.rows /\ c >= 0 /\ c < lay.cols

\* Faulty variant: no cell counts as a shelf.
isBlockedByShelves_never(lay, r, c) == FALSE

isBlockedByShelves(lay, r, c) == \E i \in DOMAIN lay.obstacles : lay.obstacles[i] = <<r, c>>

onItem(lay, r, c) == \E k \in DOMAIN lay.items : lay.items[k] = <<r, c>>

\* Faulty variant: only the pedestrian's own cell blocks, not its 3x3 buffer.
humanBufferBlocks_ownCell(people, r, c) ==
  \E i \in DOMAIN people : people[i].pos[1] = r /\ people[i].pos[2] = c

humanBufferBlocks(people, r, c) ==
  \E i \in DOMAIN people :
    Abs(people[i].pos[1] - r) <= 1 /\ Abs(people[i].pos[2] - c) <= 1

\* ===================== Pathfinding =====================
\* Faulty variant: the node inserted last is expanded, whatever its f.
FirstMinF_last(open) == Len(open)

\* open is the insertion-ordered Map of the code (a sequence of nodes; a set()
\* on an existing key keeps the key's position); parent pointers are kept as
\* the parent's cell (a parent is always a closed node, whose record is final).
FirstMinF(open) ==
  CHOOSE i \in DOMAIN open :
    /\ \A j \in DOMAIN open : open[i].f <= open[j].f
    /\ \A j \in 1..(i - 1) : open[j].f > open[i].f

RemoveAt(s, i) == SubSeq(s, 1, i - 1) \o SubSeq(s, i + 1, Len(s))

OpenIndex(open, cell) ==
  IF \E i \in DOMAIN open : open[i].cell = cell
  THEN CHOOSE i \in DOMAIN open : open[i].cell = cell
  ELSE 0

AStarPush(open, n) ==
  LET i == OpenIndex(open, n.cell)
  IN IF i = 0 THEN Append(open, n) ELSE [open EXCEPT ![i] = n]

\* Faulty variant: the expansion does not look at the shelves.
RECURSIVE AStarNeighbours_throughShelves(_, _, _, _, _, _)
AStarNeighbours_throughShelves(lay, goal, bestN, open, closed, d) ==
  IF d > Len(Dirs) THEN open
  ELSE
    LET rr == bestN.cell[1] + Dirs[d][1]
        cc == bestN.cell[2] + Dirs[d][2]
        g == bestN.g + 1
        f == g + Manhattan(<<rr, cc>>, goal)
        i == OpenIndex(open, <<rr, cc>>)
        skip == \/ ~inBounds(lay, rr, cc)
                \/ <<rr, cc>> \in closed
        open2 == IF ~skip /\ (i = 0 \/ g < open[i].g)
                 THEN AStarPush(open, [cell |-> <<rr, cc>>, g |-> g, f |-> f,
                                       parent |-> bestN.cell])
                 ELSE open
    IN AStarNeighbours_throughShelves(lay, goal, bestN, open2, closed, d + 1)

\* The expansion of the best node: each of the four neighbours that is in
\* bounds, not a shelf and not closed enters open, or replaces its entry when
\* the new g is smaller.
RECURSIVE AStarNeighbours(_, _, _, _, _, _)
AStarNeighbours(lay, goal, bestN, open, closed, d) ==
  IF d > Len(Dirs) THEN open
  ELSE
    LET rr == bestN.cell[1] + Dirs[d][1]
        cc == bestN.cell[2] + Dirs[d][2]
        g == bestN.g + 1
        f == g + Manhattan(<<rr, cc>>, goal)
        i == OpenIndex(open, <<rr, cc>>)
        skip == \/ ~inBounds(lay, rr, cc)
                \/ isBlockedByShelves(lay, rr, cc)
                \/ <<rr, cc>> \in closed
        open2 == IF ~skip /\ (i = 0 \/ g < open[i].g)
                 THEN AStarPush(open, [cell |-> <<rr, cc>>, g |-> g, f |-> f,
                                       parent |-> bestN.cell])
                 ELSE open
    IN AStarNeighbours(lay, goal, bestN, open2, closed, d + 1)

\* Faulty variant: the reconstructed path keeps the start cell.
RECURSIVE AStarPath_withStart(_, _, _)
AStarPath_withStart(par, cell, acc) ==
  IF par[cell] = null THEN <<cell>> \o acc
  ELSE AStarPath_withStart(par, par[cell], <<cell>> \o acc)

RECURSIVE AStarPath(_, _, _)
AStarPath(par, cell, acc) ==
  IF par[cell] = null THEN acc
  ELSE AStarPath(par, par[cell], <<cell>> \o acc)

RECURSIVE AStarLoop(_, _, _, _, _)
AStarLoop(lay, goal, open, closed, par) ==
  IF open = <<>> THEN <<>>
  ELSE
    LET bi == FirstMinF(open)
        bestN == open[bi]
        open1 == RemoveAt(open, bi)
        closed1 == closed \cup {bestN.cell}
        par1 == [x \in DOMAIN par \cup {bestN.cell} |->
                   IF x = bestN.cell THEN bestN.parent ELSE par[x]]
    IN IF bestN.cell = goal
       THEN AStarPath(par1, goal, <<>>)
       ELSE AStarLoop(lay, goal,
                      AStarNeighbours(lay, goal, bestN, open1, closed1, 1),
                      closed1, par1)

\* Faulty variant: a failed search answers with the goal as a one-cell path.
astarStatic_orGoal(lay, start, goal) ==
  LET p == AStarLoop(lay, goal,
                     << [cell |-> start, g |-> 0, f |-> Manhattan(start, goal),
                         parent |-> null] >>,
                     {}, [x \in {} |-> null])
  IN IF p = <<>> /\ start # goal THEN <<goal>> ELSE p

astarStatic(lay, start, goal) ==
  AStarLoop(lay, goal,
            << [cell |-> start, g |-> 0, f |-> Manhattan(start, goal), parent |-> null] >>,
            {}, [x \in {} |-> null])

\* ===================== Route planning =====================
\* Faulty variant: among equally near labels the last one wins (dist <= bestDist).
NearestIdx_lastTie(remaining, itemMap, current) ==
  CHOOSE i \in DOMAIN remaining :
    /\ \A j \in DOMAIN remaining :
         Manhattan(current, itemMap[remaining[i]]) <= Manhattan(current, itemMap[remaining[j]])
    /\ \A j \in (i + 1)..Len(remaining) :
         Manhattan(current, itemMap[remaining[j]]) > Manhattan(current, itemMap[remaining[i]])

\* The inner loop of orderByNearestNeighbor: the first index of remaining at
\* the minimum distance (dist < bestDist keeps the first one found).
NearestIdx(remaining, itemMap, current) ==
  CHOOSE i \in DOMAIN remaining :
    /\ \A j \in DOMAIN remaining :
         Manhattan(current, itemMap[remaining[i]]) <= Manhattan(current, itemMap[remaining[j]])
    /\ \A j \in 1..(i - 1) :
         Manhattan(current, itemMap[remaining[j]]) > Manhattan(current, itemMap[remaining[i]])

RECURSIVE NearestLoop(_, _, _, _)
NearestLoop(remaining, ordered, itemMap, current) ==
  IF remaining = <<>> THEN ordered
  ELSE
    LET bestIdx == NearestIdx(remaining, itemMap, current)
        nextLabel == remaining[bestIdx]
    IN NearestLoop(RemoveAt(remaining, bestIdx), Append(ordered, nextLabel),
                   itemMap, itemMap[nextLabel])

orderByNearestNeighbor(labels, itemMap, start) ==
  NearestLoop(labels, <<>>, itemMap, start)

\* Faulty variant: the segment is overwritten with copies of its last element.
ReverseSeg_repeat(s, lo, hi) ==
  [k \in DOMAIN s |-> IF k >= lo /\ k <= hi THEN s[hi] ELSE s[k]]

\* s with the segment s[lo..hi] reversed (splice of the reversed slice).
ReverseSeg(s, lo, hi) ==
  [k \in DOMAIN s |-> IF k >= lo /\ k <= hi THEN s[lo + hi - k] ELSE s[k]]

\* Faulty variant: a reversal is accepted when it does not lengthen the path.
RECURSIVE TwoOptScan_acceptTies(_, _, _, _, _, _)
TwoOptScan_acceptTies(path, labels, improved, i, j, revs) ==
  IF ~(i < Len(path) - 2)
  THEN [path |-> path, labels |-> labels, improved |-> improved, revs |-> revs]
  ELSE IF ~(j < Len(path) - 1)
  THEN TwoOptScan_acceptTies(path, labels, improved, i + 1, i + 2, revs)
  ELSE
    LET a == path[i]
        b == path[i + 1]
        c == path[j + 1]
        d == path[j + 2]
        cur == Manhattan(a, b) + Manhattan(c, d)
        alt == Manhattan(a, c) + Manhattan(b, d)
    IN IF alt <= cur
       THEN TwoOptScan_acceptTies(ReverseSeg(path, i + 1, j + 1), ReverseSeg(labels, i, j),
                                  TRUE, i, j + 1, Append(revs, ReverseSeg(path, i + 1, j + 1)))
       ELSE TwoOptScan_acceptTies(path, labels, improved, i, j + 1, revs)

\* One full pass of the double loop; i, j are the code's 0-based indices into
\* path, so the code's path[i] is path[i + 1] here and labels[i-1] is labels[i].
\* revs is a history of the pass: the path after each accepted reversal.
RECURSIVE TwoOptScan(_, _, _, _, _, _)
TwoOptScan(path, labels, improved, i, j, revs) ==
  IF ~(i < Len(path) - 2)
  THEN [path |-> path, labels |-> labels, improved |-> improved, revs |-> revs]
  ELSE IF ~(j < Len(path) - 1) THEN TwoOptScan(path, labels, improved, i + 1, i + 2, revs)
  ELSE
    LET a == path[i]
        b == path[i + 1]
        c == path[j + 1]
        d == path[j + 2]
        cur == Manhattan(a, b) + Manhattan(c, d)
        alt == Manhattan(a, c) + Manhattan(b, d)
    IN IF alt < cur
       THEN TwoOptScan(ReverseSeg(path, i + 1, j + 1), ReverseSeg(labels, i, j),
                       TRUE, i, j + 1, Append(revs, ReverseSeg(path, i + 1, j + 1)))
       ELSE TwoOptScan(path, labels, improved, i, j + 1, revs)

\* Faulty variant: a single pass is made.
RECURSIVE TwoOptLoop_onePass(_, _, _, _, _)
TwoOptLoop_onePass(path, labels, improved, guard, revs) ==
  IF improved /\ guard < 1
  THEN LET r == TwoOptScan(path, labels, FALSE, 1, 2, revs)
       IN TwoOptLoop_onePass(r.path, r.labels, r.improved, guard + 1, r.revs)
  ELSE [labels |-> labels, path |-> path, passes |-> guard, revs |-> revs]

\* The while loop; the result carries, besides the labels returned, the final
\* path, the number of passes made and the history revs.
RECURSIVE TwoOptLoop(_, _, _, _, _)
TwoOptLoop(path, labels, improved, guard, revs) ==
  IF improved /\ guard < TwoOptGuard
  THEN LET r == TwoOptScan(path, labels, FALSE, 1, 2, revs)
       IN TwoOptLoop(r.path, r.labels, r.improved, guard + 1, r.revs)
  ELSE [labels |-> labels, path |-> path, passes |-> guard, revs |-> revs]

twoOptRun(order, itemMap, start) ==
  TwoOptLoop(<<start>> \o [k \in DOMAIN order |-> itemMap[order[k]]], order, TRUE, 0,
             << <<start>> \o [k \in DOMAIN order |-> itemMap[order[k]]] >>)

twoOptImprove(order, itemMap, start) == twoOptRun(order, itemMap, start).labels


\* ===================== Layout documents =====================
\* The layout documents (data/layout-0x.json) are fetched at run time; these
\* small layouts stand for them.  obstacles is a list of cells, items maps a
\* label to its cell, drop is null when the document has none, people is
\* people.count.
\*   1:  D . # B P      2:  D # A      3:  D . A      4:  D B .
\*       . . . . A          P . B          . B .          P . A
\* LAYOUT_FILES lists three documents in the source; a fourth is added here so
\* that the open floors with and without a drop cell are both deployed.
LAYOUT_FILES == {"layout-01.json", "layout-02.json", "layout-03.json", "layout-04.json"}

LayoutDoc(name) ==
  CASE name = "layout-01.json" ->
         [rows |-> 2, cols |-> 5, obstacles |-> << <<0, 2>> >>,
          items |-> << <<1, 4>>, <<0, 3>> >>,
          dock |-> <<0, 0>>, drop |-> <<0, 4>>, people |-> 1]
    [] name = "layout-02.json" ->
         [rows |-> 2, cols |-> 3, obstacles |-> << <<0, 1>> >>,
          items |-> << <<0, 2>>, <<1, 2>> >>,
          dock |-> <<0, 0>>, drop |-> <<1, 0>>, people |-> 0]
    [] name = "layout-03.json" ->
         [rows |-> 2, cols |-> 3, obstacles |-> <<>>,
          items |-> << <<0, 2>>, <<1, 1>> >>,
          dock |-> <<0, 0>>, drop |-> null, people |-> 0]
    [] OTHER ->
         [rows |-> 2, cols |-> 3, obstacles |-> <<>>,
          items |-> << <<1, 2>>, <<0, 1>> >>,
          dock |-> <<0, 0>>, drop |-> <<1, 0>>, people |-> 0]

Cells(lay) == (0..(lay.rows - 1)) \X (0..(lay.cols - 1))

DirSet == {Dirs[i] : i \in DOMAIN Dirs}

\* ===================== Global State =====================
VARIABLES
  layout,          \* the loaded layout document
  lastLayoutName,  \* name of the last layout requested
  state,           \* the Episode State object
  timers,          \* interval timers that are live (ids)
  tickTimer,       \* the handle held in tickTimer (0: none yet)
  peopleTick,      \* ticks since run(); people move on the even ones
  currentPath,     \* cached A* steps
  waitTicks,       \* wait counter
  loading,         \* candidates of the Reset requests whose layout fetch is in flight
  clicks,          \* button clicks so far (bounded by MaxClicks)
  ev,              \* history: the last event
  tk,              \* history: what the last tick derived and did
  streak,          \* history: waiting ticks in a row, ending with the last tick
  runD,            \* history: Manhattan distance bot -> stop at run(), for a single stop
  reports,         \* history: completion reports emitted since run()
  call,            \* a direct call of a planner or pathfinder function: arguments, result
  episodeReward,   \* the episode's reward accumulator, in half points (twice the code's value)
  resets           \* Reset requests completed in succession (none since a Submit, Start or tick)

vars == <<layout, lastLayoutName, state, timers, tickTimer, peopleTick, currentPath,
          waitTicks, loading, clicks, ev, tk, streak, runD, reports, call, episodeReward, resets>>

NoCall == [fn |-> "none"]

NoTick == [phase |-> "none", target |-> null, branch |-> "none",
           replanned |-> FALSE, forced |-> FALSE, path |-> <<>>, stepped |-> FALSE,
           from |-> null, prev |-> "none"]

\* ===================== People =====================
\* Cells spawnPeople accepts: not a shelf, not an item cell, not dock, not drop.
SpawnCells(lay) ==
  {x \in Cells(lay) : /\ ~isBlockedByShelves(lay, x[1], x[2])
                      /\ ~onItem(lay, x[1], x[2])
                      /\ x # lay.dock
                      /\ x # lay.drop}

\* Every list spawnPeople(n) can return: n accepted samples, or fewer when the
\* 4000-sample guard runs out on rejected samples first.
spawnPeople(lay, n) ==
  LET lens == IF SpawnCells(lay) = {} THEN {0}
              ELSE IF SpawnCells(lay) = Cells(lay) THEN {n}
              ELSE 0..n
  IN UNION {[1..k -> [pos : SpawnCells(lay), dir : DirSet]] : k \in lens}

\* Faulty variant: the forward move does not look for an item cell.
StepPerson_ontoItem(lay, bot, p, d) ==
  LET r == p.pos[1]
      c == p.pos[2]
      nr == r + d[1]
      nc == c + d[2]
      blocked1 == \/ ~inBounds(lay, nr, nc)
                  \/ isBlockedByShelves(lay, nr, nc)
                  \/ (nr = bot[1] /\ nc = bot[2])
      d2 == <<-d[1], -d[2]>>
      nr2 == r + d2[1]
      nc2 == c + d2[2]
      blocked2 == \/ ~inBounds(lay, nr2, nc2)
                  \/ isBlockedByShelves(lay, nr2, nc2)
                  \/ onItem(lay, nr2, nc2)
  IN IF ~blocked1 THEN [pos |-> <<nr, nc>>, dir |-> d]
     ELSE IF ~blocked2 THEN [pos |-> <<nr2, nc2>>, dir |-> d2]
     ELSE [pos |-> <<r, c>>, dir |-> d2]

\* One pedestrian's move; d is the direction after the random re-draw.
StepPerson(lay, bot, p, d) ==
  LET r == p.pos[1]
      c == p.pos[2]
      nr == r + d[1]
      nc == c + d[2]
      blocked1 == \/ ~inBounds(lay, nr, nc)
                  \/ isBlockedByShelves(lay, nr, nc)
                  \/ onItem(lay, nr, nc)
                  \/ (nr = bot[1] /\ nc = bot[2])
      d2 == <<-d[1], -d[2]>>
      nr2 == r + d2[1]
      nc2 == c + d2[2]
      blocked2 == \/ ~inBounds(lay, nr2, nc2)
                  \/ isBlockedByShelves(lay, nr2, nc2)
                  \/ onItem(lay, nr2, nc2)
  IN IF ~blocked1 THEN [pos |-> <<nr, nc>>, dir |-> d]
     ELSE IF ~blocked2 THEN [pos |-> <<nr2, nc2>>, dir |-> d2]
     ELSE [pos |-> <<r, c>>, dir |-> d2]

\* Faulty variant: every pedestrian is stepped twice.
stepPeople_twice(lay, bot, people, ds) ==
  [i \in DOMAIN people |->
     StepPerson(lay, bot, StepPerson(lay, bot, people[i], ds[i]), ds[i])]

stepPeople(lay, bot, people, ds) ==
  [i \in DOMAIN people |-> StepPerson(lay, bot, people[i], ds[i])]

\* ===================== Simulation =====================
resetSim(lay, people) ==
  [dock |-> lay.dock, bot |-> lay.dock, displayOrder |-> <<>>, orderLabels |-> <<>>,
   orderCoords |-> <<>>, picked |-> <<>>, drop |-> lay.drop, people |-> people,
   time |-> 0, pathLen |-> 0, safetyPauseTicks |-> 0, delivered |-> TRUE,
   phase |-> "idle"]

\* The state after init(): a layout of the deployment's files is loaded.
InitWith(files) ==
  \E cand \in files :
    \E people \in spawnPeople(LayoutDoc(cand), LayoutDoc(cand).people) :
      /\ layout = LayoutDoc(cand)
      /\ lastLayoutName = cand
      /\ state = resetSim(LayoutDoc(cand), people)
      /\ timers = {}
      /\ tickTimer = 0
      /\ peopleTick = 0
      /\ currentPath = <<>>
      /\ waitTicks = 0
      /\ loading = <<>>
      /\ clicks = 0
      /\ ev = "init"
      /\ tk = NoTick
      /\ streak = 0
      /\ runD = -1
      /\ reports = 0
      /\ call = NoCall
      /\ resets = 0
      /\ episodeReward = 0


\* Faulty variant: the drop is targeted whenever nothing is pending, whatever
\* delivered says.
DeriveTarget_ignoreDelivered(st) ==
  IF Len(st.orderCoords) > 0 THEN [target |-> st.orderCoords[1], phase |-> "picking"]
  ELSE IF st.drop # null THEN [target |-> st.drop, phase |-> "drop"]
  ELSE [target |-> st.dock, phase |-> "return"]

\* Faulty variant: the drop is skipped, the bot returns as soon as nothing is
\* pending.
DeriveTarget_skipDrop(st) ==
  IF Len(st.orderCoords) > 0 THEN [target |-> st.orderCoords[1], phase |-> "picking"]
  ELSE [target |-> st.dock, phase |-> "return"]

\* Faulty variant: the bot heads for the last pending stop.
DeriveTarget_lastStop(st) ==
  IF Len(st.orderCoords) > 0
  THEN [target |-> st.orderCoords[Len(st.orderCoords)], phase |-> "picking"]
  ELSE IF ~st.delivered /\ st.drop # null THEN [target |-> st.drop, phase |-> "drop"]
  ELSE [target |-> st.dock, phase |-> "return"]

\* The Episode Scheduler's target derivation (step 2 of a tick).
DeriveTarget(st) ==
  IF Len(st.orderCoords) > 0 THEN [target |-> st.orderCoords[1], phase |-> "picking"]
  ELSE IF ~st.delivered /\ st.drop # null THEN [target |-> st.drop, phase |-> "drop"]
  ELSE [target |-> st.dock, phase |-> "return"]

\* Faulty variant: the terminal check asks for an undelivered shipment.
DoneAndDocked_undelivered(st, phase) ==
  phase = "return" /\ sameCell(st.bot, st.dock) /\ ~st.delivered

\* Step 3: done & docked.
DoneAndDocked(st, phase) ==
  phase = "return" /\ sameCell(st.bot, st.dock) /\ st.delivered

\* Faulty variant: every tick replans.
MustReplan_always(lay, path, target) == TRUE

\* Step 4: must the cached path be replanned for this target?
MustReplan(lay, path, target) ==
  \/ Len(path) = 0
  \/ ~sameCell(path[Len(path)], target)
  \/ ~inBounds(lay, path[1][1], path[1][2])
  \/ isBlockedByShelves(lay, path[1][1], path[1][2])

\* Faulty variant: a waiting tick counts as a step travelled.
WaitTick_countsStep(lay, st, path, wait, target) ==
  LET forced == wait + 1 >= WAIT_MAX
  IN [state |-> [st EXCEPT !.time = @ + 1, !.safetyPauseTicks = @ + 1, !.pathLen = @ + 1],
      path |-> IF forced THEN astarStatic(lay, st.bot, target) ELSE path,
      wait |-> IF forced THEN 0 ELSE wait + 1,
      forced |-> forced]

\* Faulty variant: the patience cap fires one waiting tick late.
WaitTick_lateCap(lay, st, path, wait, target) ==
  LET forced == wait + 1 > WAIT_MAX
  IN [state |-> [st EXCEPT !.time = @ + 1, !.safetyPauseTicks = @ + 1],
      path |-> IF forced THEN astarStatic(lay, st.bot, target) ELSE path,
      wait |-> IF forced THEN 0 ELSE wait + 1,
      forced |-> forced]

\* Faulty variant: a waiting tick does not advance the clock.
WaitTick_noClock(lay, st, path, wait, target) ==
  LET forced == wait + 1 >= WAIT_MAX
  IN [state |-> [st EXCEPT !.safetyPauseTicks = @ + 1],
      path |-> IF forced THEN astarStatic(lay, st.bot, target) ELSE path,
      wait |-> IF forced THEN 0 ELSE wait + 1,
      forced |-> forced]

\* Step 4, waiting branch: the next step is inside a pedestrian's buffer.
WaitTick(lay, st, path, wait, target) ==
  LET forced == wait + 1 >= WAIT_MAX
  IN [state |-> [st EXCEPT !.time = @ + 1, !.safetyPauseTicks = @ + 1],
      path |-> IF forced THEN astarStatic(lay, st.bot, target) ELSE path,
      wait |-> IF forced THEN 0 ELSE wait + 1,
      forced |-> forced]

\* Faulty variant: a pick starts the distance count again.
MoveTick_zeroOnPick(st, path, wait, target, phase) ==
  LET step == IF Len(path) > 0 THEN path[1] ELSE st.bot
      path2 == IF Len(path) > 0 THEN Tail(path) ELSE path
      st2 == [st EXCEPT !.bot = step,
                        !.pathLen = IF step # st.bot THEN @ + 1 ELSE @,
                        !.time = @ + 1]
      arrived == step = target
      pick == arrived /\ phase = "picking"
      dropped == arrived /\ phase = "drop"
      st3 == IF pick
             THEN [st2 EXCEPT
                     !.picked = Append(@, [coord |-> target, label |-> st2.orderLabels[1]]),
                     !.orderCoords = Tail(@),
                     !.orderLabels = Tail(@),
                     !.pathLen = 0,
                     !.delivered = IF Len(st2.orderCoords) = 1 THEN FALSE ELSE @]
             ELSE IF dropped THEN [st2 EXCEPT !.delivered = TRUE]
             ELSE st2
  IN [state |-> st3,
      path |-> IF pick \/ dropped THEN <<>> ELSE path2,
      wait |-> IF pick \/ dropped THEN 0 ELSE wait]

\* Faulty variant: a tick on which the bot keeps its cell counts as a step.
MoveTick_countsStay(st, path, wait, target, phase) ==
  LET step == IF Len(path) > 0 THEN path[1] ELSE st.bot
      path2 == IF Len(path) > 0 THEN Tail(path) ELSE path
      st2 == [st EXCEPT !.bot = step,
                        !.pathLen = @ + 1,
                        !.time = @ + 1]
      arrived == step = target
      pick == arrived /\ phase = "picking"
      dropped == arrived /\ phase = "drop"
      st3 == IF pick
             THEN [st2 EXCEPT
                     !.picked = Append(@, [coord |-> target, label |-> st2.orderLabels[1]]),
                     !.orderCoords = Tail(@),
                     !.orderLabels = Tail(@),
                     !.delivered = IF Len(st2.orderCoords) = 1 THEN FALSE ELSE @]
             ELSE IF dropped THEN [st2 EXCEPT !.delivered = TRUE]
             ELSE st2
  IN [state |-> st3,
      path |-> IF pick \/ dropped THEN <<>> ELSE path2,
      wait |-> IF pick \/ dropped THEN 0 ELSE wait]

\* Faulty variant: a pick leaves the label queue as it is.
MoveTick_keepsLabel(st, path, wait, target, phase) ==
  LET step == IF Len(path) > 0 THEN path[1] ELSE st.bot
      path2 == IF Len(path) > 0 THEN Tail(path) ELSE path
      st2 == [st EXCEPT !.bot = step,
                        !.pathLen = IF step # st.bot THEN @ + 1 ELSE @,
                        !.time = @ + 1]
      arrived == step = target
      pick == arrived /\ phase = "picking"
      dropped == arrived /\ phase = "drop"
      st3 == IF pick
             THEN [st2 EXCEPT
                     !.picked = Append(@, [coord |-> target, label |-> st2.orderLabels[1]]),
                     !.orderCoords = Tail(@),
                     !.delivered = IF Len(st2.orderCoords) = 1 THEN FALSE ELSE @]
             ELSE IF dropped THEN [st2 EXCEPT !.delivered = TRUE]
             ELSE st2
  IN [state |-> st3,
      path |-> IF pick \/ dropped THEN <<>> ELSE path2,
      wait |-> IF pick \/ dropped THEN 0 ELSE wait]

\* Faulty variant: the last pick marks the shipment as delivered.
MoveTick_deliversOnPick(st, path, wait, target, phase) ==
  LET step == IF Len(path) > 0 THEN path[1] ELSE st.bot
      path2 == IF Len(path) > 0 THEN Tail(path) ELSE path
      st2 == [st EXCEPT !.bot = step,
                        !.pathLen = IF step # st.bot THEN @ + 1 ELSE @,
                        !.time = @ + 1]
      arrived == step = target
      pick == arrived /\ phase = "picking"
      dropped == arrived /\ phase = "drop"
      st3 == IF pick
             THEN [st2 EXCEPT
                     !.picked = Append(@, [coord |-> target, label |-> st2.orderLabels[1]]),
                     !.orderCoords = Tail(@),
                     !.orderLabels = Tail(@),
                     !.delivered = IF Len(st2.orderCoords) = 1 THEN TRUE ELSE @]
             ELSE IF dropped THEN [st2 EXCEPT !.delivered = TRUE]
             ELSE st2
  IN [state |-> st3,
      path |-> IF pick \/ dropped THEN <<>> ELSE path2,
      wait |-> IF pick \/ dropped THEN 0 ELSE wait]

\* Steps 4-5, moving branch: advance one step along the path (or stay when the
\* path is empty), then handle an arrival.
MoveTick(st, path, wait, target, phase) ==
  LET step == IF Len(path) > 0 THEN path[1] ELSE st.bot
      path2 == IF Len(path) > 0 THEN Tail(path) ELSE path
      st2 == [st EXCEPT !.bot = step,
                        !.pathLen = IF step # st.bot THEN @ + 1 ELSE @,
                        !.time = @ + 1]
      arrived == step = target
      pick == arrived /\ phase = "picking"
      dropped == arrived /\ phase = "drop"
      st3 == IF pick
             THEN [st2 EXCEPT
                     !.picked = Append(@, [coord |-> target, label |-> st2.orderLabels[1]]),
                     !.orderCoords = Tail(@),
                     !.orderLabels = Tail(@),
                     !.delivered = IF Len(st2.orderCoords) = 1 THEN FALSE ELSE @]
             ELSE IF dropped THEN [st2 EXCEPT !.delivered = TRUE]
             ELSE st2
  IN [state |-> st3,
      path |-> IF pick \/ dropped THEN <<>> ELSE path2,
      wait |-> IF pick \/ dropped THEN 0 ELSE wait]

\* The interval callback of run(): everything one tick does, given the
\* directions ds the pedestrians draw (used on the even ticks only).
TickResult(lay, st0, path0, wait0, pTick0, ds) ==
  LET pTick == pTick0 + 1
      stepped == pTick % 2 = 0
      people == IF stepped THEN stepPeople(lay, st0.bot, st0.people, ds) ELSE st0.people
      dt == DeriveTarget(st0)
      target == dt.target
      st1 == [st0 EXCEPT !.people = people, !.phase = dt.phase]
      replan == MustReplan(lay, path0, target)
      path1 == IF replan THEN astarStatic(lay, st0.bot, target) ELSE path0
      wait1 == IF replan THEN 0 ELSE wait0
      info == [phase |-> dt.phase, target |-> target, branch |-> "move",
               replanned |-> replan, forced |-> FALSE, path |-> path1,
               stepped |-> stepped, from |-> st0.bot, prev |-> st0.phase]
  IN IF DoneAndDocked(st1, dt.phase)
     THEN [state |-> [st1 EXCEPT !.phase = "idle"], path |-> path0, wait |-> wait0,
           peopleTick |-> pTick, stop |-> TRUE,
           info |-> [info EXCEPT !.branch = "done", !.replanned = FALSE, !.path = path0]]
     ELSE IF Len(path1) > 0 /\ humanBufferBlocks(people, path1[1][1], path1[1][2])
     THEN LET w == WaitTick(lay, st1, path1, wait1, target)
          IN [state |-> w.state, path |-> w.path, wait |-> w.wait,
              peopleTick |-> pTick, stop |-> FALSE,
              info |-> [info EXCEPT !.branch = "wait", !.forced = w.forced]]
     ELSE LET m == MoveTick(st1, path1, wait1, target, dt.phase)
          IN [state |-> m.state, path |-> m.path, wait |-> m.wait,
              peopleTick |-> pTick, stop |-> FALSE, info |-> info]

\* Faulty variant: the timer is not cancelled.
clearInterval_noop(live, handle) == live

\* clearInterval(tickTimer)
clearInterval(live, handle) == live \ {handle}

\* A timer id setInterval can return: none of the live ones.
FreshTimer(live) == CHOOSE t \in 1..(Cardinality(live) + 1) : t \notin live

\* What a tick adds to episodeReward, in half points: +10 for the dock, -0.5
\* for a waiting tick, -1 for a step that changes the cell, +20 for a pick, +30
\* for the drop.
RewardDelta(st0, res) ==
  IF res.info.branch = "done" THEN 20
  ELSE IF res.info.branch = "wait" THEN -1
  ELSE (IF res.state.bot # st0.bot THEN -2 ELSE 0)
       + (IF Len(res.state.picked) > Len(st0.picked) THEN 40 ELSE 0)
       + (IF res.info.phase = "drop" /\ res.state.bot = res.info.target THEN 60 ELSE 0)

Tick(maxTime) ==
  \E t \in timers :
    \E ds \in IF (peopleTick + 1) % 2 = 0
              THEN [DOMAIN state.people -> DirSet]
              ELSE {[i \in DOMAIN state.people |-> state.people[i].dir]} :
      LET res == TickResult(layout, state, currentPath, waitTicks, peopleTick, ds)
      IN /\ state.time < maxTime
         /\ peopleTick < maxTime
         /\ state' = res.state
         /\ currentPath' = res.path
         /\ waitTicks' = res.wait
         /\ peopleTick' = res.peopleTick
         /\ timers' = IF res.stop THEN clearInterval(timers, tickTimer) ELSE timers
         /\ ev' = "tick"
         /\ tk' = res.info
         /\ streak' = IF res.info.branch = "wait" THEN streak + 1 ELSE 0
         /\ reports' = IF res.stop THEN reports + 1 ELSE reports
         /\ resets' = 0
         /\ episodeReward' = episodeReward + RewardDelta(state, res)
         /\ UNCHANGED <<call, layout, lastLayoutName, tickTimer, loading, clicks, runD>>

\* ===================== Controls =====================
\* The selected item buttons, in document order (the buttons are built sorted).
RECURSIVE SortedSeq(_)
SortedSeq(S) ==
  IF S = {} THEN <<>>
  ELSE LET m == CHOOSE x \in S : \A y \in S : x <= y
       IN <<m>> \o SortedSeq(S \ {m})

Selections(lay) == {SortedSeq(S) : S \in SUBSET (DOMAIN lay.items)}

Submit(maxClicks) ==
  \E selected \in Selections(layout) :
    /\ clicks < maxClicks
    /\ clicks' = clicks + 1
    /\ IF Len(selected) = 0
       THEN /\ ev' = "alert"
            /\ tk' = NoTick
            /\ resets' = 0
            /\ UNCHANGED <<call, episodeReward, layout, lastLayoutName, state, timers, tickTimer, peopleTick,
                           currentPath, waitTicks, loading, streak, runD, reports>>
       ELSE
         LET nn == orderByNearestNeighbor(selected, layout.items, state.dock)
             planned == twoOptImprove(nn, layout.items, state.dock)
         IN /\ state' = [state EXCEPT !.displayOrder = selected,
                                      !.orderLabels = planned,
                                      !.orderCoords = [k \in DOMAIN planned |-> layout.items[planned[k]]],
                                      !.picked = <<>>,
                                      !.pathLen = 0,
                                      !.time = 0,
                                      !.safetyPauseTicks = 0,
                                      !.delivered = FALSE,
                                      !.phase = "picking"]
            /\ currentPath' = <<>>
            /\ waitTicks' = 0
            /\ ev' = "submit"
            /\ tk' = NoTick
            /\ streak' = 0
            /\ runD' = -1
            /\ resets' = 0
            /\ UNCHANGED <<call, episodeReward, layout, lastLayoutName, timers, tickTimer, peopleTick, loading,
                           reports>>

\* Submit click when a selected button carries a label that layout.items does
\* not have (the handler takes the labels from the page's .item-btn.selected
\* elements as they are): displayOrder is assigned, then orderByNearestNeighbor
\* throws a TypeError on itemMap[label] and the handler is left.
StaleSelections(lay) ==
  {SortedSeq(S) : S \in {T \in SUBSET (1..(Len(lay.items) + 1)) : Len(lay.items) + 1 \in T}}

SubmitStale(maxClicks) ==
  \E selected \in StaleSelections(layout) :
    /\ clicks < maxClicks
    /\ clicks' = clicks + 1
    /\ state' = [state EXCEPT !.displayOrder = selected]
    /\ ev' = "throw"
    /\ tk' = NoTick
    /\ resets' = 0
    /\ UNCHANGED <<call, episodeReward, layout, lastLayoutName, timers, tickTimer, peopleTick,
                   currentPath, waitTicks, loading, streak, runD, reports>>

\* Faulty variant: run() is called without looking at the pending stops.
Start_unchecked(maxClicks) ==
  /\ clicks < maxClicks
  /\ clicks' = clicks + 1
  /\ tickTimer' = FreshTimer(clearInterval(timers, tickTimer))
  /\ timers' = clearInterval(timers, tickTimer) \cup {tickTimer'}
  /\ peopleTick' = 0
  /\ waitTicks' = 0
  /\ ev' = "start"
  /\ tk' = NoTick
  /\ runD' = -1
  /\ reports' = 0
  /\ resets' = 0
  /\ episodeReward' = 0
  /\ UNCHANGED <<call, layout, lastLayoutName, state, currentPath, loading, streak>>

\* Start click: an alert when nothing is pending (ev "noShipment"), else run().
Start(maxClicks) ==
  /\ clicks < maxClicks
  /\ clicks' = clicks + 1
  /\ IF Len(state.orderCoords) = 0
     THEN /\ ev' = "noShipment"
          /\ tk' = NoTick
          /\ resets' = 0
          /\ UNCHANGED <<call, episodeReward, layout, lastLayoutName, state, timers, tickTimer, peopleTick,
                         currentPath, waitTicks, loading, streak, runD, reports>>
     ELSE /\ tickTimer' = FreshTimer(clearInterval(timers, tickTimer))
          /\ timers' = clearInterval(timers, tickTimer) \cup {tickTimer'}
          /\ peopleTick' = 0
          /\ waitTicks' = 0
          /\ ev' = "start"
          /\ tk' = NoTick
          /\ runD' = IF Len(state.orderCoords) = 1
                     THEN Manhattan(state.bot, state.orderCoords[1]) ELSE -1
          /\ reports' = 0
          /\ resets' = 0
          /\ episodeReward' = 0
          /\ UNCHANGED <<call, layout, lastLayoutName, state, currentPath, loading, streak>>

\* Reset click: the timer is cleared and the layout fetch starts.
MaxLoading == 1

ResetClick(files, maxClicks) ==
  \E cand \in IF lastLayoutName \in files /\ Cardinality(files) > 1
              THEN files \ {lastLayoutName} ELSE files :
    /\ clicks < maxClicks
    /\ clicks' = clicks + 1
    /\ Len(loading) < MaxLoading
    /\ timers' = clearInterval(timers, tickTimer)
    /\ loading' = Append(loading, cand)
    /\ ev' = "reset"
    /\ tk' = NoTick
    /\ resets' = resets
    /\ UNCHANGED <<call, episodeReward, layout, lastLayoutName, state, tickTimer, peopleTick, currentPath,
                   waitTicks, streak, runD, reports>>

\* Faulty variant: resetSim leaves the cached path and the wait counter alone.
ResetDone_keepsPath ==
  \E i \in DOMAIN loading :
    \E ok \in BOOLEAN :
      LET lay == IF ok THEN LayoutDoc(loading[i]) ELSE layout
      IN \E people \in spawnPeople(lay, lay.people) :
           /\ layout' = lay
           /\ lastLayoutName' = loading[i]
           /\ loading' = RemoveAt(loading, i)
           /\ timers' = clearInterval(timers, tickTimer)
           /\ state' = resetSim(lay, people)
           /\ peopleTick' = 0
           /\ ev' = "resetSim"
           /\ tk' = NoTick
           /\ streak' = 0
           /\ runD' = -1
           /\ reports' = 0
           /\ resets' = resets + 1
           /\ episodeReward' = 0
           /\ UNCHANGED <<call, tickTimer, clicks, currentPath, waitTicks>>

\* The fetch of a Reset request settles (ok: the document was loaded), then
\* buildItemSelector and resetSim run.
ResetDone ==
  \E i \in DOMAIN loading :
    \E ok \in BOOLEAN :
      LET lay == IF ok THEN LayoutDoc(loading[i]) ELSE layout
      IN \E people \in spawnPeople(lay, lay.people) :
           /\ layout' = lay
           /\ lastLayoutName' = loading[i]
           /\ loading' = RemoveAt(loading, i)
           /\ timers' = clearInterval(timers, tickTimer)
           /\ state' = resetSim(lay, people)
           /\ peopleTick' = 0
           /\ currentPath' = <<>>
           /\ waitTicks' = 0
           /\ ev' = "resetSim"
           /\ tk' = NoTick
           /\ streak' = 0
           /\ runD' = -1
           /\ reports' = 0
           /\ resets' = resets + 1
           /\ episodeReward' = 0
           /\ UNCHANGED <<call, tickTimer, clicks>>

\* ---- The deployment with every layout file (pedestrians included).
Init == InitWith(LAYOUT_FILES)

Next ==
  \/ Tick(MaxTime)
  \/ Submit(MaxClicks)
  \/ Start(MaxClicks)
  \/ ResetClick(LAYOUT_FILES, MaxClicks)
  \/ ResetDone

Spec == Init /\ [][Next]_vars

\* ---- The deployment whose layouts have no pedestrians.
QuietFiles == {f \in LAYOUT_FILES : LayoutDoc(f).people = 0}

InitQuiet == InitWith(QuietFiles)

NextQuiet ==
  \/ Tick(MaxTimeQuiet)
  \/ Submit(MaxClicksQuiet)
  \/ Start(MaxClicksQuiet)
  \/ ResetClick(QuietFiles, MaxClicksQuiet)
  \/ ResetDone

SpecQuiet == InitQuiet /\ [][NextQuiet]_vars

\* ---- The deployment with every layout file, with room for a run followed by
\* two Reset clicks.
MaxTimeResets == 5
MaxClicksResets == 4

NextResets ==
  \/ Tick(MaxTimeResets)
  \/ Submit(MaxClicksResets)
  \/ Start(MaxClicksResets)
  \/ ResetClick(LAYOUT_FILES, MaxClicksResets)
  \/ ResetDone

SpecResets == Init /\ [][NextResets]_vars

\* ---- The same deployment on a page with one item button more than the
\* layout has items.
NextStale ==
  \/ Tick(MaxTimeQuiet)
  \/ Submit(MaxClicksQuiet)
  \/ SubmitStale(MaxClicksQuiet)
  \/ Start(MaxClicksQuiet)
  \/ ResetClick(QuietFiles, MaxClicksQuiet)
  \/ ResetDone

SpecStale == InitQuiet /\ [][NextStale]_vars

\* ---- The same deployment with a UI whose reporting calls throw.  uiLog,
\* uiSetEpisode, uiSetEpsilon, uiSetSteps and uiRecordReward call window.
\* __WarehouseUI unguarded, so the exception leaves the handler at the call.
\* Start click: run() has cleared the timer and reset its counters when
\* uiSetEpisode throws, before setInterval.
StartUiFails(maxClicks) ==
  /\ clicks < maxClicks
  /\ clicks' = clicks + 1
  /\ Len(state.orderCoords) > 0
  /\ timers' = clearInterval(timers, tickTimer)
  /\ peopleTick' = 0
  /\ waitTicks' = 0
  /\ resets' = 0
  /\ episodeReward' = 0
  /\ ev' = "startUiFail"
  /\ tk' = NoTick
  /\ UNCHANGED <<call, layout, lastLayoutName, state, tickTimer, currentPath, loading,
                 streak, runD, reports>>

\* A tick: the first reporting call it reaches throws.  That is uiLog after a
\* replan (the tick ends there, before the step); on the other ticks the
\* first call comes after the tick's last write to the state (done & docked:
\* no completion report is recorded).
TickUiFails(maxTime) ==
  \E t \in timers :
    \E ds \in IF (peopleTick + 1) % 2 = 0
              THEN [DOMAIN state.people -> DirSet]
              ELSE {[i \in DOMAIN state.people |-> state.people[i].dir]} :
      LET res == TickResult(layout, state, currentPath, waitTicks, peopleTick, ds)
          cut == res.info.replanned
      IN /\ state.time < maxTime
         /\ peopleTick < maxTime
         /\ state' = IF cut
                     THEN [state EXCEPT !.people = res.state.people, !.phase = res.info.phase]
                     ELSE res.state
         /\ currentPath' = IF cut THEN res.info.path ELSE res.path
         /\ waitTicks' = IF cut THEN 0 ELSE res.wait
         /\ peopleTick' = res.peopleTick
         /\ timers' = IF res.stop THEN clearInterval(timers, tickTimer) ELSE timers
         /\ ev' = "tickUiFail"
         /\ tk' = res.info
         /\ streak' = IF ~cut /\ res.info.branch = "wait" THEN streak + 1 ELSE 0
         /\ resets' = 0
         /\ episodeReward' = IF cut THEN episodeReward
                             ELSE episodeReward + RewardDelta(state, res)
         /\ UNCHANGED <<call, layout, lastLayoutName, tickTimer, loading, clicks, runD, reports>>

NextTelemetry ==
  \/ Tick(MaxTimeQuiet)
  \/ TickUiFails(MaxTimeQuiet)
  \/ Submit(MaxClicksQuiet)
  \/ Start(MaxClicksQuiet)
  \/ StartUiFails(MaxClicksQuiet)
  \/ ResetClick(QuietFiles, MaxClicksQuiet)
  \/ ResetDone

SpecTelemetry == InitQuiet /\ [][NextTelemetry]_vars

\* ---- An uninterrupted run without pedestrians: the buttons are clicked only
\* while no timer is live; a live interval timer keeps firing and a layout
\* fetch settles.
Quiet == timers = {}

NextRun ==
  \/ Tick(MaxTimeQuiet)
  \/ (Quiet /\ Submit(MaxClicksQuiet))
  \/ (Quiet /\ Start(MaxClicksQuiet))
  \/ (Quiet /\ ResetClick(QuietFiles, MaxClicksQuiet))
  \/ ResetDone

\* Weak fairness of the tick, WF_vars(Tick(MaxTimeQuiet)), written out: Tick is
\* enabled exactly when TickEnabled holds, and the steps that set ev to "tick"
\* are the Tick steps (each changes peopleTick).
TickEnabled == timers # {} /\ state.time < MaxTimeQuiet /\ peopleTick < MaxTimeQuiet

TickFairness == []<>(~TickEnabled) \/ []<><<ev' = "tick">>_vars

SpecRun ==
  /\ InitQuiet
  /\ [][NextRun]_vars
  /\ TickFairness
  /\ WF_vars(ResetDone)

\* ---- Uninterrupted runs on every small floor without pedestrians: the page
\* loaded with one layout document of LegRows x LegCols cells, dock at (0,0),
\* no shelf or one shelf at (0,1), two items and a drop cell on any of the
\* other cells (an item may share its cell with the dock, the drop or the other
\* item).  Shipments are submitted while no timer is live.
LegRows == 2
LegCols == 3
MaxTimeLegs == 12
MaxClicksLegs == 2

LegCells == (0..(LegRows - 1)) \X (0..(LegCols - 1))

LegDocs ==
  {[rows |-> LegRows, cols |-> LegCols, obstacles |-> obs, items |-> <<a, b>>,
    dock |-> <<0, 0>>, drop |-> d, people |-> 0] :
     obs \in {<<>>, << <<0, 1>> >>},
     a \in LegCells \ {<<0, 1>>}, b \in LegCells \ {<<0, 1>>}, d \in LegCells \ {<<0, 1>>}}

InitLegs ==
  \E lay \in LegDocs :
    /\ layout = lay
    /\ lastLayoutName = "layout-legs.json"
    /\ state = resetSim(lay, <<>>)
    /\ timers = {}
    /\ tickTimer = 0
    /\ peopleTick = 0
    /\ currentPath = <<>>
    /\ waitTicks = 0
    /\ loading = <<>>
    /\ clicks = 0
    /\ ev = "init"
    /\ tk = NoTick
    /\ streak = 0
    /\ runD = -1
    /\ reports = 0
    /\ call = NoCall
    /\ resets = 0
    /\ episodeReward = 0

NextLegs ==
  \/ Tick(MaxTimeLegs)
  \/ (Quiet /\ Submit(MaxClicksLegs))
  \/ Start(MaxClicksLegs)

SpecLegs == InitLegs /\ [][NextLegs]_vars

\* ===================== Direct calls of the route planner =====================
\* The planner functions applied to every argument within these bounds: item
\* maps of MaxLabels labels on a PlanRows x PlanCols floor (cells may repeat),
\* every list of distinct labels, every start cell up to the reflections of the
\* floor (the planner reads cells through Manhattan distances only, which the
\* reflections preserve).
PlanRows == 2
PlanCols == 3
MaxLabels == 4

PlanCells == (0..(PlanRows - 1)) \X (0..(PlanCols - 1))

PlanStarts == (0..((PlanRows - 1) \div 2)) \X (0..((PlanCols - 1) \div 2))

LabelLists ==
  UNION {{f \in [1..n -> 1..MaxLabels] : \A x, y \in 1..n : x # y => f[x] # f[y]}
         : n \in 1..MaxLabels}

\* The program itself stays as loaded while a function is called directly.
Parked ==
  /\ layout = LayoutDoc("layout-03.json")
  /\ lastLayoutName = "layout-03.json"
  /\ state = resetSim(layout, <<>>)
  /\ timers = {}
  /\ tickTimer = 0
  /\ peopleTick = 0
  /\ currentPath = <<>>
  /\ waitTicks = 0
  /\ loading = <<>>
  /\ clicks = 0
  /\ ev = "init"
  /\ tk = NoTick
  /\ streak = 0
  /\ runD = -1
  /\ reports = 0
  /\ resets = 0
  /\ episodeReward = 0

StayParked ==
  UNCHANGED <<layout, lastLayoutName, state, timers, tickTimer, peopleTick, currentPath,
              waitTicks, loading, clicks, ev, tk, streak, runD, reports, episodeReward, resets>>

InitPlan ==
  /\ Parked
  /\ \E labels \in LabelLists, itemMap \in [1..MaxLabels -> PlanCells], start \in PlanStarts :
       call = [fn |-> "input", labels |-> labels, itemMap |-> itemMap, start |-> start]

\* planned = twoOptImprove(orderByNearestNeighbor(labels, itemMap, start), ...),
\* as the Submit handler calls them.  Both functions work on copies of their
\* argument ([...labels], order.slice()), so the caller's list stays as given.
PlanCall ==
  /\ call.fn = "input"
  /\ LET nn == orderByNearestNeighbor(call.labels, call.itemMap, call.start)
         run == twoOptRun(nn, call.itemMap, call.start)
     IN call' = [fn |-> "plan", given |-> call.labels, labels |-> call.labels,
                 itemMap |-> call.itemMap, start |-> call.start,
                 order |-> nn, planned |-> run.labels, path |-> run.path,
                 passes |-> run.passes, revs |-> run.revs]
  /\ StayParked

\* twoOptImprove applied to the list as given (any route, not only a
\* nearest-neighbour one).
ImproveCall ==
  /\ call.fn = "input"
  /\ LET run == twoOptRun(call.labels, call.itemMap, call.start)
     IN call' = [fn |-> "improve", given |-> call.labels, labels |-> call.labels,
                 itemMap |-> call.itemMap, start |-> call.start,
                 order |-> call.labels, planned |-> run.labels, path |-> run.path,
                 passes |-> run.passes, revs |-> run.revs]
  /\ StayParked

NextPlan == PlanCall \/ ImproveCall

SpecPlan == InitPlan /\ [][NextPlan]_vars

\* ===================== Direct calls of the pathfinder =====================
\* astarStatic, and the tick that asks it for a path, applied to every floor of
\* AStarRows x AStarCols cells with at most MaxObstacles shelves, every start
\* and every goal on it.
AStarRows == 3
AStarCols == 3
MaxObstacles == 4

AStarCells == (0..(AStarRows - 1)) \X (0..(AStarCols - 1))

CellAt(k) == <<(k - 1) \div AStarCols, (k - 1) % AStarCols>>

\* The obstacle lists: the cells numbered in S, in row-major order.
ObstacleLists ==
  {[i \in DOMAIN SortedSeq(S) |-> CellAt(SortedSeq(S)[i])] :
     S \in {T \in SUBSET (1..(AStarRows * AStarCols)) : Cardinality(T) <= MaxObstacles}}

\* A layout document with the bot's cell as dock and the goal as its one item.
FloorDoc(obstacles, start, goal, n) ==
  [rows |-> AStarRows, cols |-> AStarCols, obstacles |-> obstacles,
   items |-> <<goal>>, dock |-> start, drop |-> null, people |-> n]

InitAStar ==
  /\ Parked
  /\ \E obstacles \in ObstacleLists, start \in AStarCells, goal \in AStarCells :
       call = [fn |-> "input", lay |-> FloorDoc(obstacles, start, goal, 1),
               start |-> start, goal |-> goal]

AStarCall ==
  /\ call.fn = "input"
  /\ call' = [fn |-> "astar", lay |-> call.lay, start |-> call.start, goal |-> call.goal,
              path |-> astarStatic(call.lay, call.start, call.goal)]
  /\ StayParked

\* The first tick of a run whose one pending stop is the goal, with the bot on
\* start and a pedestrian on any cell: the tick plans with astarStatic.
TickCall ==
  /\ call.fn = "input"
  /\ \E ped \in AStarCells :
       LET people == <<[pos |-> ped, dir |-> Dirs[1]]>>
           st == [resetSim(call.lay, people) EXCEPT
                    !.displayOrder = <<1>>, !.orderLabels = <<1>>,
                    !.orderCoords = <<call.goal>>, !.delivered = FALSE,
                    !.phase = "picking"]
           res == TickResult(call.lay, st, <<>>, 0, 0, <<Dirs[1]>>)
       IN call' = [fn |-> "tick", lay |-> call.lay, start |-> call.start,
                   goal |-> call.goal, ped |-> ped, path |-> res.info.path,
                   branch |-> res.info.branch, after |-> res.state,
                   left |-> res.path, stop |-> res.stop]
  /\ StayParked

NextAStar == AStarCall \/ TickCall

SpecAStar == InitAStar /\ [][NextAStar]_vars

\* --- spawnPeople and stepPeople called directly ---
MaxPeople == 2
MaxSteps == 2

InitSpawn ==
  /\ Parked
  /\ \E cand \in LAYOUT_FILES, n \in 0..MaxPeople :
       call = [fn |-> "input", lay |-> LayoutDoc(cand), n |-> n]

\* people = spawnPeople(n), as resetSim calls it.
SpawnCall ==
  /\ call.fn = "input"
  /\ \E list \in spawnPeople(call.lay, call.n) :
       call' = [fn |-> "spawn", lay |-> call.lay, n |-> call.n, people |-> list,
                steps |-> 0]
  /\ StayParked

\* stepPeople() on the spawned pedestrians, the bot standing on any floor cell.
StepCall ==
  /\ call.fn \in {"spawn", "step"}
  /\ call.steps < MaxSteps
  /\ \E bot \in {x \in Cells(call.lay) : ~isBlockedByShelves(call.lay, x[1], x[2])},
        ds \in [DOMAIN call.people -> DirSet] :
       call' = [call EXCEPT !.fn = "step",
                            !.people = stepPeople(call.lay, bot, call.people, ds),
                            !.steps = @ + 1]
  /\ StayParked

NextSpawn == SpawnCall \/ StepCall

SpecSpawn == InitSpawn /\ [][NextSpawn]_vars

\* ===================== Properties =====================
IsTick == ev' = "tick"

\* C1: in every reachable state no pedestrian occupies the bot's cell
\* (stepPeople never moves a pedestrian onto the bot, on the forward move or on
\* the bounce move, and the bot never moves onto a pedestrian).
C1_NoPedestrianOnBot ==
  \A i \in DOMAIN state.people : state.people[i].pos # state.bot

\* C2: on every tick on which the bot changes cell, the cell it moves into is
\* at Chebyshev distance at least 2 from every pedestrian's position after the
\* pedestrians' move of the same tick.
C2_MoveOutsideBuffers ==
  [][(IsTick /\ state'.bot # state.bot) =>
       \A i \in DOMAIN state'.people :
         Chebyshev(state'.bot, state'.people[i].pos) >= 2]_vars

C2_Witness ==
  /\ ev = "tick"
  /\ state.bot # tk.from
  /\ tk.stepped
  /\ state.people # <<>>
  /\ waitTicks > 0

\* C3: with zero pedestrians and a drop cell, a run started with a non-empty
\* shipment reaches phase idle with the timer stopped, and it does so before
\* the tick caps are met (the run is never cut short).
C3_RunTerminates ==
  /\ [](timers # {} /\ layout.people = 0 /\ state.drop # null
          => state.time < MaxTimeQuiet /\ peopleTick < MaxTimeQuiet)
  /\ ((timers # {} /\ layout.people = 0 /\ state.drop # null)
        ~> (state.phase = "idle" /\ timers = {}))

C3_Witness ==
  /\ ev = "tick"
  /\ tk.branch = "done"
  /\ layout.obstacles # <<>>
  /\ Len(state.picked) = 2
  /\ state.phase = "idle"
  /\ timers = {}

\* C4: when no drop cell is configured, after the last pending stop is picked
\* the episode completes: the tick that finds the bot at the dock with nothing
\* pending sets phase idle and stops the timer.
C4_NoDropCompletes ==
  [][(IsTick /\ state.drop = null /\ state.orderCoords = <<>>
        /\ state.picked # <<>> /\ state.bot = state.dock)
       => (state'.phase = "idle" /\ timers' = {})]_vars

\* C5: at every tick, after target derivation, phase is picking and the target
\* is the first pending stop's cell iff pendingStops is non-empty; phase is drop
\* and the target is the drop cell iff pendingStops is empty, delivered is false
\* and a drop cell is configured; otherwise phase is return and the target is
\* the dock.  The result depends on pendingStops, delivered and drop only.
C5_TargetDerivation ==
  [][IsTick =>
       LET pending == Len(state.orderCoords) > 0
           toDrop == ~pending /\ ~state.delivered /\ state.drop # null
       IN /\ pending <=> tk'.phase = "picking"
          /\ pending => tk'.target = state.orderCoords[1]
          /\ toDrop <=> tk'.phase = "drop"
          /\ toDrop => tk'.target = state.drop
          /\ (~pending /\ ~toDrop) <=> tk'.phase = "return"
          /\ (~pending /\ ~toDrop) => tk'.target = state.dock
          /\ tk'.branch # "done" => state'.phase = tk'.phase]_vars

C5_Witness ==
  /\ ev = "tick"
  /\ tk.phase = "return"
  /\ tk.prev = "picking"
  /\ state.drop = null
  /\ ~state.delivered

\* C6: on a tick where the derived phase is return, the bot is at the dock and
\* delivered is true, the scheduler sets phase idle, cancels the timer (no
\* timer stays live, so no later tick fires), changes neither elapsedTicks nor
\* distanceTraveled, and emits the completion telemetry exactly once.
C6_TerminalTick ==
  [][(IsTick /\ state.orderCoords = <<>> /\ state.delivered /\ state.bot = state.dock)
       => /\ tk'.phase = "return"
          /\ state'.phase = "idle"
          /\ timers' = {}
          /\ state'.time = state.time
          /\ state'.pathLen = state.pathLen
          /\ state'.bot = state.bot
          /\ reports = 0
          /\ reports' = 1]_vars

C6_Witness ==
  /\ ev = "tick"
  /\ tk.branch = "done"
  /\ state.phase = "idle"
  /\ reports = 1
  /\ state.pathLen > 0

\* Phase edges of the episode cycle.
PhaseEdge(lay, p, q) ==
  \/ p = q
  \/ (p = "idle" /\ q = "picking")
  \/ (p = "picking" /\ q = "drop")
  \/ (p = "drop" /\ q = "return")
  \/ (p = "return" /\ q = "idle")
  \/ (p = "picking" /\ q = "return" /\ lay.drop = null)

\* C7 (as claimed): apart from reset, the phase changes only along the edges
\* idle-picking, picking-drop, drop-return, return-idle (and picking-return
\* when no drop is configured), under any interleaving of ticks with Submit and
\* Start.
C7_PhaseEdgesOriginal ==
  [][ev' # "resetSim" => PhaseEdge(layout, state.phase, state'.phase)]_vars

\* C7 (amended): apart from reset (any phase to idle) and Submit (any phase to
\* picking), the phase changes only along those edges; a tick passes through
\* the derived phase and never moves from drop or return back to picking.
C7_PhaseEdges ==
  [][/\ ev' = "submit" => state'.phase = "picking"
     /\ ev' = "resetSim" => state'.phase = "idle"
     /\ ev' \notin {"submit", "resetSim", "tick"} => state'.phase = state.phase
     /\ IsTick => /\ PhaseEdge(layout, state.phase, tk'.phase)
                  /\ PhaseEdge(layout, tk'.phase, state'.phase)
                  /\ state.phase \in {"drop", "return"} => state'.phase # "picking"]_vars

C7_Witness ==
  /\ ev = "tick"
  /\ tk.prev = "drop"
  /\ state.phase = "return"
  /\ state.bot # tk.from

C9_ForcedAfterStreak ==
  (ev = "tick" /\ tk.forced) => streak >= WAIT_MAX

\* The premise of C10: no pedestrians, no obstacles, and a run started with a
\* single pending stop at Manhattan distance runD from the bot.
C10_Corridor ==
  /\ runD >= 0
  /\ state.people = <<>>
  /\ layout.obstacles = <<>>

\* C10 (as claimed): pendingStops is drained on exactly the runD-th tick of the
\* run, and the following tick derives drop (return without a drop cell).
C10_DrainedOnTickDOriginal ==
  C10_Corridor =>
    /\ state.orderCoords = <<>> <=> peopleTick >= runD
    /\ (ev = "tick" /\ peopleTick = runD + 1)
         => tk.phase = IF state.drop # null THEN "drop" ELSE "return"

\* C10 (amended): for runD >= 1 pendingStops is drained on exactly the runD-th
\* tick; a stop on the bot's own cell (runD = 0) is drained on the first tick;
\* the tick after the draining one derives drop (return without a drop cell).
C10_DrainTick == IF runD = 0 THEN runD + 1 ELSE runD

C10_DrainedOnTickD ==
  C10_Corridor =>
    /\ state.orderCoords = <<>> <=> peopleTick >= C10_DrainTick
    /\ (ev = "tick" /\ peopleTick = C10_DrainTick)
         => (tk.phase = "picking" /\ state.picked # <<>>)
    /\ (ev = "tick" /\ peopleTick = C10_DrainTick + 1)
         => tk.phase = IF state.drop # null THEN "drop" ELSE "return"

C10_Witness ==
  /\ C10_Corridor
  /\ runD >= 2
  /\ ev = "tick"
  /\ peopleTick = runD + 1
  /\ tk.phase = "drop"

\* Manhattan length of the open path p[1], p[2], ..., p[n].
RECURSIVE RouteLen(_)
RouteLen(p) ==
  IF Len(p) < 2 THEN 0 ELSE Manhattan(p[1], p[2]) + RouteLen(Tail(p))

\* The open path start, stop 1, ..., stop n of a route.
RoutePath(order, itemMap, start) ==
  <<start>> \o [k \in DOMAIN order |-> itemMap[order[k]]]

Range(f) == {f[k] : k \in DOMAIN f}

\* C11: the planned route (orderByNearestNeighbor, then twoOptImprove) is a
\* permutation of exactly the input labels: same length, none missing, none
\* duplicated; the input list is as it was given.
C11_PlanIsPermutation ==
  call.fn = "plan" =>
    /\ Len(call.planned) = Len(call.given)
    /\ Range(call.planned) = Range(call.given)
    /\ \A x, y \in DOMAIN call.planned : x # y => call.planned[x] # call.planned[y]
    /\ Len(call.order) = Len(call.given)
    /\ Range(call.order) = Range(call.given)
    /\ call.labels = call.given

C11_Witness ==
  /\ call.fn = "plan"
  /\ Len(call.given) = MaxLabels
  /\ call.order # call.given
  /\ call.planned # call.order

\* C12: the Manhattan length of the open path start, stop 1, ..., stop n in
\* the order twoOptImprove returns is at most its length in the order given,
\* and every accepted reversal strictly decreases that length.
C12_TwoOptNeverLonger ==
  call.fn \in {"plan", "improve"} =>
    /\ RouteLen(RoutePath(call.planned, call.itemMap, call.start))
         <= RouteLen(RoutePath(call.order, call.itemMap, call.start))
    /\ call.revs[1] = RoutePath(call.order, call.itemMap, call.start)
    /\ call.revs[Len(call.revs)] = RoutePath(call.planned, call.itemMap, call.start)
    /\ \A k \in 1..(Len(call.revs) - 1) :
         RouteLen(call.revs[k + 1]) < RouteLen(call.revs[k])

C12_Witness ==
  /\ call.fn = "improve"
  /\ Len(call.revs) >= 3
  /\ call.passes >= 3

Adjacent(a, b) == Manhattan(a, b) = 1

FreeCell(lay, x) == inBounds(lay, x[1], x[2]) /\ ~isBlockedByShelves(lay, x[1], x[2])

\* Breadth-first distance: the number of steps of a shortest 4-connected walk
\* from start to goal whose cells after start are free; -1 when there is none.
RECURSIVE BfsDist(_, _, _, _, _)
BfsDist(lay, frontier, seen, goal, d) ==
  IF goal \in frontier THEN d
  ELSE IF frontier = {} THEN -1
  ELSE LET next == {x \in Cells(lay) :
                      /\ x \notin seen
                      /\ FreeCell(lay, x)
                      /\ \E y \in frontier : Adjacent(x, y)}
       IN BfsDist(lay, next, seen \cup next, goal, d + 1)

ShortestDist(lay, start, goal) == BfsDist(lay, {start}, {start}, goal, 0)

\* C13: when the goal is reachable astarStatic returns a path whose number of
\* cells is the shortest 4-connected obstacle-avoiding distance from start to
\* goal (the Manhattan distance when there are no obstacles).
C13_AStarShortest ==
  call.fn = "astar" =>
    /\ ShortestDist(call.lay, call.start, call.goal) >= 0
         => Len(call.path) = ShortestDist(call.lay, call.start, call.goal)
    /\ call.lay.obstacles = <<>> => Len(call.path) = Manhattan(call.start, call.goal)

C13_Witness ==
  /\ call.fn = "astar"
  /\ call.lay.obstacles # <<>>
  /\ Len(call.path) >= Manhattan(call.start, call.goal) + 4

\* C14: a non-empty path returned by astarStatic excludes the start cell, ends
\* at the goal, starts 4-adjacent to the start, has each later cell 4-adjacent
\* to its predecessor and holds only in-bounds cells that are not obstacles;
\* the path a tick plans is that same path wherever the pedestrian stands.
C14_PathShape ==
  /\ (call.fn \in {"astar", "tick"} /\ call.path # <<>>) =>
       /\ \A k \in DOMAIN call.path : call.path[k] # call.start
       /\ call.path[Len(call.path)] = call.goal
       /\ Adjacent(call.start, call.path[1])
       /\ \A k \in 1..(Len(call.path) - 1) : Adjacent(call.path[k], call.path[k + 1])
       /\ \A k \in DOMAIN call.path : FreeCell(call.lay, call.path[k])
  /\ call.fn = "tick" => call.path = astarStatic(call.lay, call.start, call.goal)

C14_Witness ==
  /\ call.fn = "tick"
  /\ Len(call.path) >= 3
  /\ call.ped = call.path[2]
  /\ call.lay.obstacles # <<>>

\* C15: astarStatic returns the empty sequence whenever the goal is an
\* obstacle or no obstacle-free path from start to goal exists, and never a
\* partial path; the tick that receives the empty path leaves the bot where it
\* is, advances the clock and does not stop the timer.
C15_EmptyWhenUnreachable ==
  /\ call.fn \in {"astar", "tick"} =>
       /\ (\/ isBlockedByShelves(call.lay, call.goal[1], call.goal[2])
           \/ ShortestDist(call.lay, call.start, call.goal) = -1) => call.path = <<>>
       /\ call.path # <<>> => call.path[Len(call.path)] = call.goal
  /\ (call.fn = "tick" /\ call.path = <<>>) =>
       /\ call.after.bot = call.start
       /\ call.after.time = 1
       /\ call.after.pathLen = 0
       /\ call.left = <<>>
       /\ ~call.stop

C15_Witness ==
  /\ call.fn = "tick"
  /\ call.path = <<>>
  /\ call.start # call.goal
  /\ ~isBlockedByShelves(call.lay, call.goal[1], call.goal[2])
  /\ call.after.orderCoords = <<call.goal>>

\* C16: after Reset is requested no tick executes on the pre-reset Episode
\* State: while the layout load of a Reset request is in flight (the request
\* was made, resetSim has not run yet) no tick runs, under every interleaving
\* of Reset, Start, Submit and ticks.
C16_NoTickBeforeResetSim ==
  [][IsTick => loading = <<>>]_vars

\* C17: at most one tick timer is active, and it is the one tickTimer holds
\* (run() cancels the previous timer before creating a new one); after
\* resetSim and after completion no timer is active.
C17_SingleTimer ==
  /\ Cardinality(timers) <= 1
  /\ timers \subseteq {tickTimer}
  /\ ev = "resetSim" => timers = {}
  /\ (ev = "tick" /\ tk.branch = "done") => timers = {}
  /\ ev = "start" => timers = {tickTimer}

C17_Witness ==
  /\ ev = "start"
  /\ state.time > 0
  /\ loading = <<>>
  /\ state.bot # state.dock
  /\ timers = {tickTimer}

\* C18: requesting Start while pendingStops is empty signals the operator,
\* creates no timer and leaves the Episode State, the cached path, the wait
\* counter and the tick counter unchanged; Start runs only with a pending stop.
C18_NoShipment ==
  [][ev' \in {"start", "noShipment"} =>
       /\ Len(state.orderCoords) = 0 <=> ev' = "noShipment"
       /\ ev' = "noShipment" =>
            UNCHANGED <<state, timers, tickTimer, peopleTick, currentPath, waitTicks,
                        layout, lastLayoutName, loading, reports>>]_vars

C18_Witness ==
  /\ ev = "noShipment"
  /\ state.phase = "idle"
  /\ state.picked # <<>>
  /\ state.delivered
  /\ timers = {}

\* C19: a Submit whose shipment contains a label absent from the item map is
\* rejected as a whole: no route is installed and every field of the Episode
\* State, the displayed order included, is unchanged.
C19_InvalidLabelRejected ==
  [][ev' = "throw" => (state' = state /\ currentPath' = currentPath)]_vars

\* C20: a layout document that cannot be loaded is not reported as loaded and
\* the engine does not continue on a previous layout: the layout in use is
\* the document of the name reported as loaded.
C20_FailedLoadNotReported ==
  layout = LayoutDoc(lastLayoutName)

\* C21: a failing reporting call leaves the simulation unaffected: run()
\* still starts the tick timer, and a tick that has planned a path still makes
\* its move along it.
C21_TelemetryFailureHarmless ==
  [][/\ ev' = "startUiFail" => timers' # {}
     /\ (ev' = "tickUiFail" /\ tk'.replanned /\ tk'.path # <<>>)
          => state'.bot = tk'.path[1]]_vars

\* C22 (as claimed): between resets, elapsedTicks and distanceTraveled never
\* decrease from one state to the next while a tick timer is active, under any
\* interleaving of ticks with Submit and Start.
C22_MonotoneOriginal ==
  [][(timers # {} /\ ev' \notin {"reset", "resetSim"})
       => (state'.time >= state.time /\ state'.pathLen >= state.pathLen)]_vars

\* C22 (amended): ticks and Start never decrease elapsedTicks or
\* distanceTraveled, a tick adds at most 1 to each; Submit, like reset, sets
\* both to 0, also while a timer is active.
C22_Monotone ==
  [][/\ ev' \notin {"submit", "resetSim"}
          => (state'.time >= state.time /\ state'.pathLen >= state.pathLen)
     /\ IsTick => (state'.time <= state.time + 1 /\ state'.pathLen <= state.pathLen + 1)
     /\ ev' \in {"submit", "resetSim"} => (state'.time = 0 /\ state'.pathLen = 0)]_vars

C22_Witness ==
  /\ ev = "submit"
  /\ timers # {}
  /\ peopleTick > 0
  /\ state.bot # state.dock
  /\ state.time = 0

\* C23: when an episode completes, the reported reward equals
\* 10 + 20 * (stops picked) + 30 (drop reached) - distanceTraveled
\* - 0.5 * (waiting ticks), counted from the state at completion, whatever
\* Submit, Start and tick events led there.  Rewards are kept doubled.
C23_RewardFormula ==
  [][(IsTick /\ tk'.branch = "done")
       => episodeReward' = 2 * (10 + 20 * Len(state'.picked) + 30)
                           - 2 * state'.pathLen - state'.safetyPauseTicks]_vars

\* C24: pedestrians move only on every second tick of a run.  On the odd
\* ticks their positions and headings are unchanged; on the even ticks every
\* pedestrian is stepped exactly once, against the bot's cell before the bot
\* moves, and ends at most one 4-adjacent cell from where it was.
C24_PeopleEverySecondTick ==
  [][IsTick =>
       /\ peopleTick' = peopleTick + 1
       /\ DOMAIN state'.people = DOMAIN state.people
       /\ peopleTick' % 2 = 1 => state'.people = state.people
       /\ peopleTick' % 2 = 0 =>
            \E ds \in [DOMAIN state.people -> DirSet] :
              \A i \in DOMAIN state.people :
                /\ state'.people[i] = StepPerson(layout, state.bot, state.people[i], ds[i])
                /\ Manhattan(state'.people[i].pos, state.people[i].pos) <= 1]_vars

C24_Witness ==
  /\ ev = "tick"
  /\ tk.stepped
  /\ peopleTick = 4
  /\ state.people # <<>>
  /\ state.bot # tk.from

\* C25: immediately after spawnPeople the spawned pedestrians occupy pairwise
\* distinct cells.
C25_SpawnDistinct ==
  call.fn = "spawn" =>
    \A i, j \in DOMAIN call.people : i # j => call.people[i].pos # call.people[j].pos

\* Pedestrian p stands inside the grid of lay, off the shelves and off the
\* item cells.
OnWalkableFloor(lay, p) ==
  /\ p.pos[1] \in 0..(lay.rows - 1)
  /\ p.pos[2] \in 0..(lay.cols - 1)
  /\ \A k \in DOMAIN lay.obstacles : lay.obstacles[k] # p.pos
  /\ \A k \in DOMAIN lay.items : lay.items[k] # p.pos

\* C26: in every reachable state every pedestrian is inside the grid, on a cell
\* that is neither an obstacle nor an item cell; right after a spawn (at load
\* and at reset, or a direct call) no pedestrian is on the dock or the drop
\* cell, and spawnPeople has returned at most the requested number.
C26_PeopleOnFloor ==
  /\ \A i \in DOMAIN state.people : OnWalkableFloor(layout, state.people[i])
  /\ ev \in {"init", "resetSim"} =>
       /\ Len(state.people) <= layout.people
       /\ \A i \in DOMAIN state.people :
            state.people[i].pos \notin {layout.dock, layout.drop}
  /\ call.fn \in {"spawn", "step"} =>
       \A i \in DOMAIN call.people : OnWalkableFloor(call.lay, call.people[i])
  /\ call.fn = "spawn" =>
       /\ Len(call.people) <= call.n
       /\ \A i \in DOMAIN call.people :
            call.people[i].pos \notin {call.lay.dock, call.lay.drop}

\* A pedestrian that has walked onto the dock or the drop cell during a run.
C26_Witness ==
  /\ ev = "tick"
  /\ \E i \in DOMAIN state.people :
       /\ state.people[i].pos \in {layout.dock, layout.drop}
       /\ OnWalkableFloor(layout, state.people[i])

\* C27: right after a reset the phase is idle, the bot is at the dock,
\* pendingStops and pickedStops are empty, elapsedTicks and distanceTraveled are
\* 0, the cached path is empty, the wait counter is 0 and no tick timer is
\* active.
C27_ResetPostcondition ==
  ev = "resetSim" =>
    /\ state.phase = "idle"
    /\ state.bot = layout.dock
    /\ state.dock = layout.dock
    /\ state.orderCoords = <<>>
    /\ state.orderLabels = <<>>
    /\ state.picked = <<>>
    /\ state.time = 0
    /\ state.pathLen = 0
    /\ currentPath = <<>>
    /\ waitTicks = 0
    /\ timers = {}

\* A reset that ended a run that had been started.
C27_Witness ==
  /\ ev = "resetSim"
  /\ tickTimer # 0
  /\ clicks = MaxClicks
  /\ state.phase = "idle"

\* The Episode State without its pedestrians.
NoPeople(st) == [st EXCEPT !.people = <<>>]

C29_CompletionRequiresDelivery ==
  [][/\ (IsTick /\ tk'.branch = "done") =>
          /\ Range(state'.displayOrder) \subseteq {state'.picked[k].label : k \in DOMAIN state'.picked}
          /\ state'.orderCoords = <<>>
          /\ state'.drop # null
          /\ state'.delivered
     /\ (state'.delivered /\ ~state.delivered) =>
          \/ ev' = "resetSim"
          \/ /\ IsTick
             /\ tk'.phase = "drop"
             /\ state'.bot = state.drop
             /\ state'.orderCoords = <<>>
             /\ state'.picked = state.picked
     /\ state'.orderCoords # <<>> => ~state'.delivered]_vars

C29_Witness ==
  /\ ev = "tick"
  /\ tk.branch = "done"
  /\ state.delivered
  /\ state.drop # null
  /\ Range(state.displayOrder) = {1, 2}
  /\ Len(state.picked) = 2

\* The three conditions for a replan, on the cached path as the tick finds it.
ReplanDue(lay, path, target) ==
  \/ path = <<>>
  \/ path[Len(path)] # target
  \/ path[1] \notin Cells(lay)
  \/ \E k \in DOMAIN lay.obstacles : lay.obstacles[k] = path[1]

\* The wait counter once the replan decision of the tick is taken.
WaitAfterPlan == IF tk'.replanned THEN 0 ELSE waitTicks

\* C30 (as claimed): on each tick the planner is invoked and the wait counter
\* reset exactly when the cached path is empty, or its last cell differs from
\* the active target, or its first cell is out of bounds or an obstacle.
C30_ReplanExactlyWhenDueOriginal ==
  [][IsTick => (tk'.replanned <=> ReplanDue(layout, currentPath, tk'.target))]_vars

\* C30 (amended): on each tick that does not end the episode the planner is
\* invoked (shelves only, from the bot's cell to the active target) and the
\* wait counter reset to 0 exactly when the cached path is empty, or its last
\* cell differs from the target, or its first cell is out of bounds or an
\* obstacle; otherwise the cached path is kept.  A pedestrian on or near the
\* path makes the bot wait and forces a replan only when the wait counter
\* reaches WAIT_MAX.  The tick that ends the episode plans nothing.
C30_ReplanExactlyWhenDue ==
  [][IsTick =>
       /\ tk'.branch = "done" =>
            (~tk'.replanned /\ currentPath' = currentPath /\ waitTicks' = waitTicks)
       /\ tk'.branch # "done" =>
            /\ tk'.replanned <=> ReplanDue(layout, currentPath, tk'.target)
            /\ tk'.path = IF tk'.replanned
                          THEN astarStatic(layout, state.bot, tk'.target)
                          ELSE currentPath
            /\ tk'.forced <=> (tk'.branch = "wait" /\ WaitAfterPlan + 1 >= WAIT_MAX)
            /\ tk'.branch = "wait" =>
                 /\ waitTicks' = IF tk'.forced THEN 0 ELSE WaitAfterPlan + 1
                 /\ currentPath' = IF tk'.forced
                                   THEN astarStatic(layout, state.bot, tk'.target)
                                   ELSE tk'.path
            /\ tk'.branch = "move" =>
                 waitTicks' = IF state'.bot = tk'.target /\ tk'.phase \in {"picking", "drop"}
                              THEN 0 ELSE WaitAfterPlan]_vars

\* A tick on which a pedestrian held the bot back and nothing was replanned.
C30_Witness ==
  /\ ev = "tick"
  /\ tk.branch = "wait"
  /\ ~tk.replanned
  /\ ~tk.forced
  /\ waitTicks = WAIT_MAX - 1
  /\ currentPath # <<>>

\* C31: a tick picks at most one stop, and only on arriving at the cell of the
\* first pending stop in phase picking: that stop leaves the head of
\* pendingStops and joins the end of pickedStops, and the cached path and the
\* wait counter are cleared.  A tick that brings the bot anywhere else, the
\* cell of a later pending stop included, leaves both queues as they were.
C31_PickInPlannedOrder ==
  [][IsTick =>
       IF /\ tk'.phase = "picking"
          /\ tk'.branch = "move"
          /\ state'.bot = state.orderCoords[1]
       THEN /\ state'.picked = Append(state.picked,
                                      [coord |-> state.orderCoords[1],
                                       label |-> state.orderLabels[1]])
            /\ state'.orderCoords = Tail(state.orderCoords)
            /\ state'.orderLabels = Tail(state.orderLabels)
            /\ currentPath' = <<>>
            /\ waitTicks' = 0
       ELSE /\ state'.picked = state.picked
            /\ state'.orderCoords = state.orderCoords
            /\ state'.orderLabels = state.orderLabels]_vars

\* The bot has stepped onto the cell of a pending stop that is not the first
\* in the queue, and that stop is still pending.
C31_Witness ==
  /\ ev = "tick"
  /\ tk.branch = "move"
  /\ state.bot # tk.from
  /\ Len(state.orderCoords) = 2
  /\ state.orderCoords[2] = state.bot
  /\ state.orderCoords[1] # state.bot
  /\ state.picked = <<>>

\* Index of label x in the list seq.
PosIn(seq, x) == CHOOSE i \in DOMAIN seq : seq[i] = x

\* The position the greedy route stands on before choosing its k-th label.
GreedyFrom(order, itemMap, start, k) ==
  IF k = 1 THEN start ELSE itemMap[order[k - 1]]

\* The labels not yet chosen before the k-th choice.
Unvisited(order, given, k) ==
  Range(given) \ {order[m] : m \in 1..(k - 1)}

\* C32: orderByNearestNeighbor is greedy.  Its k-th label is an unvisited
\* label whose cell is at minimum Manhattan distance from the current position
\* (the start, then the cell of the label chosen before), and among the
\* unvisited labels at that minimum it is the earliest of the input list.
C32_NearestNeighbourGreedy ==
  call.fn = "plan" =>
    \A k \in DOMAIN call.order :
      LET cur == GreedyFrom(call.order, call.itemMap, call.start, k)
          un == Unvisited(call.order, call.given, k)
          d(x) == Manhattan(cur, call.itemMap[x])
      IN /\ call.order[k] \in un
         /\ \A x \in un : d(call.order[k]) <= d(x)
         /\ \A x \in un : d(x) = d(call.order[k])
                            => PosIn(call.given, call.order[k]) <= PosIn(call.given, x)

\* A route on which a tie had to be broken after the first choice, and the
\* greedy order differs from the input order.
C32_Witness ==
  /\ call.fn = "plan"
  /\ Len(call.given) = MaxLabels
  /\ call.order # call.given
  /\ \E k \in 2..Len(call.order) :
       LET cur == GreedyFrom(call.order, call.itemMap, call.start, k)
           un == Unvisited(call.order, call.given, k)
       IN \E x \in un : /\ x # call.order[k]
                         /\ Manhattan(cur, call.itemMap[x])
                              = Manhattan(cur, call.itemMap[call.order[k]])
                         /\ call.itemMap[x] # call.itemMap[call.order[k]]

\* p with the stops lo..hi of the route reversed; p[1] is the start, so stop i
\* is p[i + 1].
ReversedStops(p, lo, hi) ==
  [k \in DOMAIN p |-> IF k >= lo + 1 /\ k <= hi + 1 THEN p[lo + hi + 2 - k] ELSE p[k]]

C34_TickCounters ==
  [][IsTick =>
       IF tk'.branch = "done"
       THEN /\ state'.time = state.time
            /\ state'.pathLen = state.pathLen
            /\ state'.bot = state.bot
       ELSE /\ state'.time = state.time + 1
            /\ Manhattan(state'.bot, state.bot) <= 1
            /\ tk'.branch = "wait" => state'.bot = state.bot
            /\ state'.pathLen = state.pathLen + (IF state'.bot # state.bot THEN 1 ELSE 0)]_vars

\* A tick on which the planner gave no step and the bot stayed where it was,
\* after ticks on which it had moved.
C34_Witness ==
  /\ ev = "tick"
  /\ tk.branch = "move"
  /\ tk.replanned
  /\ tk.path = <<>>
  /\ state.bot = tk.from
  /\ state.pathLen >= 1
  /\ state.time > state.pathLen + state.safetyPauseTicks

\* The labels of the stops picked so far, in the order they were picked.
PickedLabels(st) == [k \in DOMAIN st.picked |-> st.picked[k].label]

\* C35: in every state the label and cell queues of the pending stops have the
\* same length and orderCoords[i] is the item cell of orderLabels[i]; and in
\* every state after a Submit, until the next Submit or Reset, the labels of
\* pickedStops followed by the labels of pendingStops are the planned route of
\* the submitted shipment, each picked stop recorded with its item cell.
C35_QueuesFollowRoute ==
  /\ Len(state.orderCoords) = Len(state.orderLabels)
  /\ \A i \in DOMAIN state.orderLabels :
       state.orderCoords[i] = layout.items[state.orderLabels[i]]
  /\ state.displayOrder = <<>> => (state.picked = <<>> /\ state.orderLabels = <<>>)
  /\ state.displayOrder # <<>> =>
       /\ PickedLabels(state) \o state.orderLabels
            = twoOptImprove(orderByNearestNeighbor(state.displayOrder, layout.items, state.dock),
                            layout.items, state.dock)
       /\ \A k \in DOMAIN state.picked :
            state.picked[k].coord = layout.items[state.picked[k].label]

\* Mid-run: one stop picked, one pending, and the route differs from the order
\* in which the shipment was entered.
C35_Witness ==
  /\ ev = "tick"
  /\ Len(state.picked) = 1
  /\ Len(state.orderLabels) = 1
  /\ Len(state.displayOrder) = 2
  /\ state.picked[1].label = state.displayOrder[2]

\* C36: between ticks the wait counter is in 0..WAIT_MAX-1.  It is 0 after the
\* waiting tick that brings it to WAIT_MAX, after every tick that replans or
\* arrives and then moves, after Submit, after Start and after a reset; a
\* waiting tick below the cap adds 1 to it (starting from 0 when the tick
\* replanned), and any other tick leaves it alone.
C36_WaitCounterRange ==
  /\ [](waitTicks \in 0..(WAIT_MAX - 1))
  /\ [][/\ ev' \in {"submit", "start", "resetSim"} => waitTicks' = 0
        /\ (IsTick /\ tk'.branch = "wait") =>
             waitTicks' = IF (IF tk'.replanned THEN 0 ELSE waitTicks) + 1 >= WAIT_MAX
                          THEN 0
                          ELSE (IF tk'.replanned THEN 0 ELSE waitTicks) + 1
        /\ (IsTick /\ tk'.branch = "wait") => (tk'.forced <=> waitTicks' = 0)
        /\ (IsTick /\ tk'.branch = "move") =>
             waitTicks' = IF \/ tk'.replanned
                             \/ (state'.bot = tk'.target /\ tk'.phase \in {"picking", "drop"})
                          THEN 0 ELSE waitTicks
        /\ (IsTick /\ tk'.branch = "done") => waitTicks' = waitTicks]_vars

\* The waiting tick on which the counter reached WAIT_MAX and was reset.
C36_Witness ==
  /\ ev = "tick"
  /\ tk.branch = "wait"
  /\ tk.forced
  /\ ~tk.replanned
  /\ waitTicks = 0

\* Cell x is inside the grid of lay and carries no shelf.
OpenFloor(lay, x) ==
  /\ x \in Cells(lay)
  /\ \A k \in DOMAIN lay.obstacles : lay.obstacles[k] # x

\* C37: between ticks a non-empty cached path starts on a cell 4-adjacent to
\* the bot, runs over 4-adjacent cells that are in bounds and free of shelves,
\* and has the length of a shortest obstacle-avoiding path from the bot to its
\* last cell; so a patience-forced replan returns a path as long as the cached
\* path it replaces.
C37_CachedPathShortest ==
  /\ [](currentPath # <<>> =>
          /\ Manhattan(state.bot, currentPath[1]) = 1
          /\ \A k \in DOMAIN currentPath : OpenFloor(layout, currentPath[k])
          /\ \A k \in 1..(Len(currentPath) - 1) :
               Manhattan(currentPath[k], currentPath[k + 1]) = 1
          /\ Len(currentPath) = ShortestDist(layout, state.bot, currentPath[Len(currentPath)]))
  /\ [][(IsTick /\ tk'.forced) =>
          /\ tk'.path # <<>>
          /\ Len(currentPath') = Len(tk'.path)
          /\ currentPath'[Len(currentPath')] = tk'.path[Len(tk'.path)]]_vars

\* A patience-forced replan of a cached path of several cells, around a shelf.
C37_Witness ==
  /\ ev = "tick"
  /\ tk.forced
  /\ layout.obstacles # <<>>
  /\ Len(currentPath) >= 2
  /\ Len(currentPath) > Manhattan(state.bot, currentPath[Len(currentPath)])

\* C38: on a layout whose dock is in bounds and not a shelf, the bot's cell is
\* inside the grid and is not a shelf cell in every reachable state.
C38_BotOnOpenFloor ==
  OpenFloor(layout, layout.dock) => OpenFloor(layout, state.bot)

\* The bot on its way around a shelf, on a cell next to it.
C38_Witness ==
  /\ ev = "tick"
  /\ state.bot # tk.from
  /\ state.bot # state.dock
  /\ OpenFloor(layout, layout.dock)
  /\ \E k \in DOMAIN layout.obstacles : Manhattan(state.bot, layout.obstacles[k]) = 1
  /\ Len(tk.path) > Manhattan(tk.from, tk.target)

\* The cells of a finished run's legs: dock, the stops as picked, drop, dock.
LegSeq(st) ==
  <<st.dock>> \o [k \in DOMAIN st.picked |-> st.picked[k].coord] \o <<st.drop, st.dock>>

\* The sum of the shortest obstacle-avoiding distances of consecutive cells.
RECURSIVE LegSum(_, _)
LegSum(lay, seq) ==
  IF Len(seq) < 2 THEN 0
  ELSE ShortestDist(lay, seq[1], seq[2]) + LegSum(lay, Tail(seq))

\* The number of pick and drop legs of length zero (the last leg, back to the
\* dock, is not counted).
ZeroLegs(seq) == Cardinality({k \in 1..(Len(seq) - 2) : seq[k] = seq[k + 1]})

\* C39: with no pedestrians, a drop cell and the bot starting at the dock,
\* distanceTraveled at completion is the sum of the shortest obstacle-avoiding
\* path lengths of the legs dock, stop 1, ..., stop n, drop, dock in planned
\* order, and elapsedTicks at completion is distanceTraveled plus the number
\* of pick and drop legs of length zero.
C39_DistanceAtCompletion ==
  [][(IsTick /\ tk'.branch = "done") =>
       /\ PickedLabels(state')
            = twoOptImprove(orderByNearestNeighbor(state'.displayOrder, layout.items, state'.dock),
                            layout.items, state'.dock)
       /\ state'.pathLen = LegSum(layout, LegSeq(state'))
       /\ state'.time = state'.pathLen + ZeroLegs(LegSeq(state'))]_vars

\* A completed run around a shelf with a leg of length zero.
C39_Witness ==
  /\ ev = "tick"
  /\ tk.branch = "done"
  /\ layout.obstacles # <<>>
  /\ Len(state.picked) = 2
  /\ ZeroLegs(LegSeq(state)) >= 1
  /\ state.pathLen > Manhattan(state.dock, state.picked[1].coord)
                      + Manhattan(state.picked[1].coord, state.picked[2].coord)
                      + Manhattan(state.picked[2].coord, state.drop)
                      + Manhattan(state.drop, state.dock)

\* ===================== Stats worker (KV) =====================
\* The worker keeps one KV entry, "global".  The model holds the entry and
\* the POST /api/report requests in flight in the call record: kv is the
\* stored value (set = FALSE while the key is absent), req[r] is request r.
\* A handler runs between awaits without interruption, and other requests may
\* run at each await: after req.json(), after load() and after put().
MaxRequests == 3
RUNS_CAP == 2

Requests == 1..MaxRequests

\* The value load() falls back to while the key is absent.  epsilon and
\* last_update_iso are null there: "null" and 0 stand for it.
StatsDefault ==
  [episodes |-> 0, average_reward |-> 0, epsilon |-> "null", runs |-> <<>>,
   last_update_iso |-> 0]

\* Bodies of request r.  Request r reports reward r, so that its run can be
\* told apart in runs; finite = FALSE is a body whose reward or steps is not
\* a finite number (or is not JSON at all); epsilon "NaN" is an absent one.
Bodies(r) ==
  [finite : BOOLEAN, reward : {r}, steps : {1}, epsilon : {"NaN", "e"}]

NoBody == [finite |-> FALSE, reward |-> 0, steps |-> 0, epsilon |-> "NaN"]

IdleRequest == [pc |-> "idle", body |-> NoBody, data |-> StatsDefault]

load(kv) == IF kv.set THEN kv.data ELSE StatsDefault

RECURSIVE SumRewards(_)
SumRewards(runs) ==
  IF runs = <<>> THEN 0 ELSE runs[1].reward + SumRewards(Tail(runs))

\* Number((totalReward / n).toFixed(2)), in hundredths.
AverageReward(runs) == (200 * SumRewards(runs) + Len(runs)) \div (2 * Len(runs))

\* Lines 49-58: what the handler makes of the loaded value.  The timestamp is
\* the instant of request r, written r.
Recorded(data, body, r) ==
  LET episodes == data.episodes + 1
      run      == [id |-> episodes, reward |-> body.reward, steps |-> body.steps,
                   timestamp |-> r]
      pushed   == Append(data.runs, run)
      runs     == IF Len(pushed) > RUNS_CAP THEN Tail(pushed) ELSE pushed
  IN [episodes |-> episodes,
      average_reward |-> AverageReward(runs),
      epsilon |-> IF body.epsilon # "NaN" THEN body.epsilon ELSE data.epsilon,
      runs |-> runs,
      last_update_iso |-> r]

InitStats ==
  /\ Parked
  /\ call = [fn |-> "stats", kv |-> [set |-> FALSE, data |-> StatsDefault],
             req |-> [r \in Requests |-> IdleRequest]]

\* POST /api/report arrives: the body is parsed and checked; 400 on a reward
\* or steps that is not finite, otherwise the handler awaits load().
ReportArrives(r) ==
  /\ call.req[r].pc = "idle"
  /\ \E body \in Bodies(r) :
       call' = [call EXCEPT !.req[r] =
                  [pc |-> IF body.finite THEN "load" ELSE "400", body |-> body,
                   data |-> StatsDefault]]
  /\ StayParked

\* load() returns; the handler updates its copy and awaits put().
ReportLoads(r) ==
  /\ call.req[r].pc = "load"
  /\ call' = [call EXCEPT !.req[r].pc = "put",
                          !.req[r].data = Recorded(load(call.kv), call.req[r].body, r)]
  /\ StayParked

\* put() stores the copy; the handler answers ok.
ReportPuts(r) ==
  /\ call.req[r].pc = "put"
  /\ call' = [call EXCEPT !.kv = [set |-> TRUE, data |-> call.req[r].data],
                          !.req[r].pc = "ok"]
  /\ StayParked

NextStats ==
  \E r \in Requests : ReportArrives(r) \/ ReportLoads(r) \/ ReportPuts(r)

SpecStats == InitStats /\ [][NextStats]_vars

\* The requests answered ok, and whether any request is still being handled.
AcceptedReports == {r \in Requests : call.req[r].pc = "ok"}

StatsSettled == \A r \in Requests : call.req[r].pc \in {"idle", "400", "ok"}

\* C40: once the POST /api/report requests have been answered, the stored
\* episodes count is the number of accepted reports and, up to the cap on
\* runs, every accepted report has its run in runs: no accepted report is
\* lost, also when requests are handled concurrently.
C40_NoReportLost ==
  StatsSettled =>
    /\ load(call.kv).episodes = Cardinality(AcceptedReports)
    /\ Cardinality(AcceptedReports) <= RUNS_CAP =>
         \A r \in AcceptedReports :
           \E k \in 1..Len(load(call.kv).runs) : load(call.kv).runs[k].reward = r

\* Two reports were accepted and the stored count is one.
C40_LostReport ==
  /\ StatsSettled
  /\ Cardinality(AcceptedReports) = 2
  /\ load(call.kv).episodes = 1

====
